---- MODULE Spec2Model ----
(***************************************************************************)
(* A model of dishly's app.py: the CalorieCalculator class, the dish       *)
(* normalisation helpers (extract_calories, get_macro_value, the           *)
(* instruction lookup and splitting) and the Streamlit script run that     *)
(* uses them.                                                              *)
(*                                                                         *)
(* Python strings are TLA+ strings (Len, SubSeq, \o, Head and Tail apply). *)
(* Python floats are exact decimals in fixed point; every definition that  *)
(* holds one names its unit.                                               *)
(***************************************************************************)
EXTENDS Integers, Sequences, FiniteSets, TLC

VARIABLES
    phase,        \* position of the scenario in progress
    args,         \* arguments of the CalorieCalculator construction
    calculator,   \* the attributes stored on the CalorieCalculator instance
    ctor_error,   \* message of the ValueError raised by __init__, or NoError
    tdee,         \* last value returned by get_maintenance_calories
    calls,        \* number of get_maintenance_calories calls on the instance
    value_in,     \* argument of the normalisation function under study
    value_out,    \* what the normalisation function produced
    session_state,  \* st.session_state: maintenance_calories and calc_error
    widgets,      \* the values the calculator widgets and the dish selectbox hold
    view          \* what the last script run displayed

vars == <<phase, args, calculator, ctor_error, tdee, calls, value_in, value_out,
          session_state, widgets, view>>

calc_vars == <<args, calculator, ctor_error, tdee, calls>>
fn_vars == <<value_in, value_out>>
app_vars == <<session_state, widgets, view>>

-----------------------------------------------------------------------------
(* Strings *)

Ch(s, i) == SubSeq(s, i, i)

Range(seq) == {seq[i] : i \in 1..Len(seq)}

ascii_uppercase == "ABCDEFGHIJKLMNOPQRSTUVWXYZ"
ascii_lowercase == "abcdefghijklmnopqrstuvwxyz"
digits == "0123456789"

CharsOf(s) == {Ch(s, i) : i \in 1..Len(s)}

whitespace == " \t\n\r\f"

DigitChars == CharsOf(digits)
SpaceChars == CharsOf(whitespace)
UpperChars == CharsOf(ascii_uppercase)

IndexIn(s, c) == CHOOSE i \in 1..Len(s) : Ch(s, i) = c

\* str.lower(), one character
lower_char(c) ==
    IF c \in UpperChars
    THEN Ch(ascii_lowercase, IndexIn(ascii_uppercase, c))
    ELSE c

\* str.lower()
RECURSIVE str_lower(_)
str_lower(s) ==
    IF s = "" THEN "" ELSE lower_char(Head(s)) \o str_lower(Tail(s))

\* str(n) for an int
RECURSIVE nat_str(_)
nat_str(n) ==
    IF n < 10 THEN Ch(digits, n + 1)
    ELSE nat_str(n \div 10) \o Ch(digits, (n % 10) + 1)

int_str(n) == IF n < 0 THEN "-" \o nat_str(-n) ELSE nat_str(n)

\* sep.join(items)
RECURSIVE str_join(_, _)
str_join(sep, items) ==
    IF items = <<>> THEN ""
    ELSE IF Len(items) = 1 THEN items[1]
    ELSE items[1] \o sep \o str_join(sep, Tail(items))

IsDigit(c) == c \in DigitChars
IsSpace(c) == c \in SpaceChars
IsUpper(c) == c \in UpperChars

\* str.lstrip(), str.rstrip(), str.strip()
RECURSIVE str_lstrip(_)
str_lstrip(s) == IF s # "" /\ IsSpace(Head(s)) THEN str_lstrip(Tail(s)) ELSE s

RECURSIVE str_rstrip(_)
str_rstrip(s) ==
    IF s # "" /\ IsSpace(Ch(s, Len(s)))
    THEN str_rstrip(SubSeq(s, 1, Len(s) - 1))
    ELSE s

str_strip(s) == str_rstrip(str_lstrip(s))

\* str.endswith(suffix)
str_endswith(s, suffix) ==
    Len(s) >= Len(suffix) /\ SubSeq(s, Len(s) - Len(suffix) + 1, Len(s)) = suffix

-----------------------------------------------------------------------------
(* Python values: None, int, float, str, list, dict.  A number is the exact *)
(* decimal m * 10^-e; a float keeps no trailing zero in its fraction.       *)

PyNone == [t |-> "None"]
PyInt(n) == [t |-> "int", m |-> n, e |-> 0]
PyNaN == [t |-> "float_nan"]
PyStr(s) == [t |-> "str", s |-> s]
PyList(items) == [t |-> "list", items |-> items]
PyDict(d) == [t |-> "dict", d |-> d]
ValueError == [t |-> "ValueError"]
TypeError == [t |-> "TypeError"]

RECURSIVE Normalize(_, _)
Normalize(m, e) ==
    IF e > 0 /\ m % 10 = 0 THEN Normalize(m \div 10, e - 1) ELSE [m |-> m, e |-> e]

PyFloat(m, e) == LET n == Normalize(m, e) IN [t |-> "float", m |-> n.m, e |-> n.e]

\* isinstance(v, (int, float))
IsNumber(v) == v.t \in {"int", "float", "float_nan"}

RECURSIVE Pow10(_)
Pow10(e) == IF e = 0 THEN 1 ELSE 10 * Pow10(e - 1)

\* the value of a string of decimal digits
RECURSIVE digits_value(_)
digits_value(s) ==
    IF s = "" THEN 0
    ELSE (10 * digits_value(SubSeq(s, 1, Len(s) - 1)))
         + (IndexIn(digits, Ch(s, Len(s))) - 1)

\* float(v) for an int or a float
float_of_number(v) == IF v.t = "int" THEN PyFloat(v.m, 0) ELSE v

\* float(s) for a str: surrounding whitespace, a sign, digits with at most
\* one point, or nan; anything else is a ValueError.  (Exponents, underscores
\* and inf need characters no modelled input holds.)
py_float(s0) ==
    LET s == str_strip(s0)
        neg == s # "" /\ Head(s) = "-"
        body == IF s # "" /\ Head(s) \in {"-", "+"} THEN Tail(s) ELSE s
        dots == {i \in 1..Len(body) : Ch(body, i) = "."}
    IN  IF str_lower(body) = "nan" THEN PyNaN
        ELSE IF \/ body = "" \/ body = "."
                \/ Cardinality(dots) > 1
                \/ \E i \in 1..Len(body) : ~IsDigit(Ch(body, i)) /\ Ch(body, i) # "."
        THEN ValueError
        ELSE LET dot == IF dots = {} THEN Len(body) + 1 ELSE CHOOSE i \in dots : TRUE
                 whole == SubSeq(body, 1, dot - 1)
                 frac == SubSeq(body, dot + 1, Len(body))
                 m == digits_value(whole \o frac)
             IN  PyFloat(IF neg THEN -m ELSE m, Len(frac))

\* str(v) for an int or a float (repr of a float: at least one fraction digit)
RECURSIVE zero_pad(_, _)
zero_pad(s, width) == IF Len(s) >= width THEN s ELSE zero_pad("0" \o s, width)

number_str(v) ==
    IF v.t = "float_nan" THEN "nan"
    ELSE LET a == IF v.m < 0 THEN -v.m ELSE v.m
             sign == IF v.m < 0 THEN "-" ELSE ""
             whole == nat_str(a \div Pow10(v.e))
         IN  IF v.t = "int" THEN sign \o whole
             ELSE IF v.e = 0 THEN sign \o whole \o ".0"
             ELSE sign \o whole \o "." \o zero_pad(nat_str(a % Pow10(v.e)), v.e)

\* all strings over the alphabet of length at most n
RECURSIVE StringsOver(_, _)
StringsOver(alphabet, n) ==
    IF n = 0 THEN {""}
    ELSE LET shorter == StringsOver(alphabet, n - 1)
         IN  shorter \cup {s \o c : s \in shorter, c \in alphabet}

-----------------------------------------------------------------------------
(* class CalorieCalculator *)

\* 0.453592, in units of 1e-6
_POUNDS_TO_KG_FACTOR == 453592
\* 2.54, in units of 1e-2
_INCHES_TO_CM_FACTOR == 254
_FEET_TO_INCHES_FACTOR == 12

\* the dict, in insertion order; multipliers in units of 1e-3
_ACTIVITY_MULTIPLIERS ==
    << <<"sedentary", 1200>>, <<"light", 1375>>, <<"moderate", 1550>>,
       <<"active", 1725>>, <<"extra_active", 1900>> >>

_VALID_SEX_OPTIONS == <<"male", "female">>

dict_keys(d) == [i \in 1..Len(d) |-> d[i][1]]

dict_get(d, k) == d[CHOOSE i \in 1..Len(d) : d[i][1] = k][2]

NoError == "<no error>"
NoFields == <<>>
NoValue == [kcal |-> -1, e8 |-> -1]

weight_ok(weight_lbs) == weight_lbs > 0

height_ft_ok(height_ft) == height_ft >= 0

height_in_ok_mut(height_in) == 0 <= height_in /\ height_in <= _FEET_TO_INCHES_FACTOR
height_in_ok(height_in) == 0 <= height_in /\ height_in < _FEET_TO_INCHES_FACTOR

age_ok(age_years) == age_years > 0

processed_sex_mut(sex) == sex
processed_sex(sex) == str_lower(sex)

processed_activity_level(activity_level) == str_lower(activity_level)

\* the validation of __init__: the message of the first check that fails
validate(a) ==
    IF ~weight_ok(a.weight_lbs)
    THEN "Weight must be a positive number."
    ELSE IF ~height_ft_ok(a.height_ft)
    THEN "Height (feet) must be a non-negative integer."
    ELSE IF ~height_in_ok(a.height_in)
    THEN "Height (inches) must be an integer between 0 and "
         \o int_str(_FEET_TO_INCHES_FACTOR - 1) \o "."
    ELSE IF ~age_ok(a.age_years)
    THEN "Age must be a positive integer."
    ELSE IF processed_sex(a.sex) \notin Range(_VALID_SEX_OPTIONS)
    THEN "Invalid sex. Choose from: " \o str_join(", ", _VALID_SEX_OPTIONS) \o "."
    ELSE IF processed_activity_level(a.activity_level)
            \notin Range(dict_keys(_ACTIVITY_MULTIPLIERS))
    THEN "Invalid activity level. Choose from: "
         \o str_join(", ", dict_keys(_ACTIVITY_MULTIPLIERS)) \o "."
    ELSE NoError

\* the stores of __init__; _weight_kg in 1e-6 kg, _height_cm in 1e-2 cm
store(a) ==
    LET total_inches == (a.height_ft * _FEET_TO_INCHES_FACTOR) + a.height_in
    IN  [_weight_kg |-> a.weight_lbs * _POUNDS_TO_KG_FACTOR,
         _height_cm |-> total_inches * _INCHES_TO_CM_FACTOR,
         _age_years |-> a.age_years,
         _sex |-> processed_sex(a.sex),
         _activity_level |-> processed_activity_level(a.activity_level)]

\* a slip: the weight is stored as soon as it has been checked
CalorieCalculator__init__mut(a) ==
    LET err == validate(a)
        early == IF weight_ok(a.weight_lbs)
                 THEN [_weight_kg |-> a.weight_lbs * _POUNDS_TO_KG_FACTOR]
                 ELSE NoFields
    IN  IF err # NoError
        THEN [raised |-> err, self |-> early]
        ELSE [raised |-> NoError, self |-> store(a)]

\* __init__: every check, then every store
CalorieCalculator__init__(a) ==
    LET err == validate(a)
    IN  IF err # NoError
        THEN [raised |-> err, self |-> NoFields]
        ELSE [raised |-> NoError, self |-> store(a)]

_calculate_bmr_mut(self) ==
    IF self._sex = "male"
    THEN self._weight_kg + (6250 * self._height_cm) - (500000 * self._age_years) + 500000
    ELSE self._weight_kg + (6250 * self._height_cm) - (500000 * self._age_years) + 16100000

\* bmr in units of 1e-5 kcal: 10 * (1e-6 kg) is 1e-5, 6.25 * (1e-2 cm) is
\* 6250e-5, 5 * years is 500000e-5
_calculate_bmr(self) ==
    IF self._sex = "male"
    THEN self._weight_kg + (6250 * self._height_cm) - (500000 * self._age_years) + 500000
    ELSE self._weight_kg + (6250 * self._height_cm) - (500000 * self._age_years) - 16100000

\* a (1e-5) times m (1e-3), exactly, as whole kcal and a 1e-8 remainder
FixMul(a, m) ==
    LET q == a \div 100000
        r == a % 100000
        qm == q * m
        low == ((qm % 1000) * 100000) + (r * m)
    IN  [kcal |-> (qm \div 1000) + (low \div 100000000), e8 |-> low % 100000000]

get_maintenance_calories(self) ==
    LET bmr == _calculate_bmr(self)
        multiplier == dict_get(_ACTIVITY_MULTIPLIERS, self._activity_level)
    IN  FixMul(bmr, multiplier)

-----------------------------------------------------------------------------
(* Scenario: one CalorieCalculator is constructed and then queried *)

MaxCalls == 3

Weights == {-5, 0, 1, 180}
Feet == {-1, 0, 5}
Inches == {-1, 0, 10, 11, 12}
Ages == {0, 28}
Sexes == {"male", "Male", "MALE", "female", "FEMALE", "other"}
Activities == {"sedentary", "light", "moderate", "Moderate", "active",
               "extra_active", "EXTRA_ACTIVE", "lazy"}

\* the script has not run
NoApp == session_state = <<>> /\ widgets = <<>> /\ view = <<>>

NoArgs == [weight_lbs |-> 0, height_ft |-> 0, height_in |-> 0, age_years |-> 0,
           sex |-> "", activity_level |-> ""]

InitCalc ==
    /\ phase = "idle"
    /\ args = NoArgs
    /\ calculator = NoFields
    /\ ctor_error = NoError
    /\ tdee = NoValue
    /\ calls = 0
    /\ NoApp
    /\ value_in = PyNone
    /\ value_out = PyNone

\* calculator = CalorieCalculator(...)
Construct ==
    /\ phase = "idle"
    /\ \E w \in Weights, ft \in Feet, in \in Inches, age \in Ages,
          sex \in Sexes, act \in Activities :
          LET a == [weight_lbs |-> w, height_ft |-> ft, height_in |-> in,
                    age_years |-> age, sex |-> sex, activity_level |-> act]
              r == CalorieCalculator__init__(a)
          IN  /\ args' = a
              /\ calculator' = r.self
              /\ ctor_error' = r.raised
              /\ phase' = IF r.raised = NoError THEN "constructed" ELSE "raised"
    /\ UNCHANGED <<tdee, calls, fn_vars, app_vars>>

\* calculator.get_maintenance_calories()
Call ==
    /\ phase = "constructed"
    /\ calls < MaxCalls
    /\ tdee' = get_maintenance_calories(calculator)
    /\ calls' = calls + 1
    /\ UNCHANGED <<phase, args, calculator, ctor_error, fn_vars, app_vars>>

NextCalc == Construct \/ Call

SpecCalc == InitCalc /\ [][NextCalc]_vars

-----------------------------------------------------------------------------
(* Claims about CalorieCalculator *)

\* the two strings differ at most in the case of their ASCII letters
SameIgnoringCase(s, t) ==
    /\ Len(s) = Len(t)
    /\ \A i \in 1..Len(s) :
          \/ Ch(s, i) = Ch(t, i)
          \/ \E k \in 1..26 :
                /\ {Ch(s, i), Ch(t, i)} = {Ch(ascii_uppercase, k), Ch(ascii_lowercase, k)}

SexNames == {"male", "female"}
ActivityNames == {"sedentary", "light", "moderate", "active", "extra_active"}

IsSexName(s) == \E n \in SexNames : SameIgnoringCase(s, n)
IsActivityName(s) == \E n \in ActivityNames : SameIgnoringCase(s, n)

NumbersValid(a) ==
    /\ a.weight_lbs > 0
    /\ a.height_ft >= 0
    /\ 0 <= a.height_in /\ a.height_in <= 11
    /\ a.age_years > 0

ProfileValid(a) == NumbersValid(a) /\ IsSexName(a.sex) /\ IsActivityName(a.activity_level)

FirstViolation(a) ==
    IF ~(a.weight_lbs > 0) THEN "Weight must be a positive number."
    ELSE IF ~(a.height_ft >= 0) THEN "Height (feet) must be a non-negative integer."
    ELSE IF ~(0 <= a.height_in /\ a.height_in <= 11)
    THEN "Height (inches) must be an integer between 0 and 11."
    ELSE IF ~(a.age_years > 0) THEN "Age must be a positive integer."
    ELSE IF ~IsSexName(a.sex) THEN "Invalid sex. Choose from: male, female."
    ELSE "Invalid activity level. Choose from: sedentary, light, moderate, active, extra_active."

\* C2: construction succeeds exactly when weight_lbs > 0, height_ft >= 0,
\* 0 <= height_in <= 11, age_years > 0, sex is male or female and
\* activity_level is a key of the multiplier table (both ignoring case); a
\* failed construction reports the first violated check in the order weight,
\* height_ft, height_in, age, sex, activity_level.
C2_ConstructionContract ==
    phase \in {"constructed", "raised"} =>
        /\ (phase = "constructed") <=> ProfileValid(args)
        /\ (phase = "constructed") <=> (ctor_error = NoError)
        /\ phase = "raised" => ctor_error = FirstViolation(args)

\* several inputs are invalid (inches 12, sex, activity) and the inches
\* message is the one reported
C2_Witness ==
    /\ phase = "raised"
    /\ args.weight_lbs = 180 /\ args.height_ft = 5 /\ args.height_in = 12
    /\ args.sex = "other" /\ args.activity_level = "lazy"
    /\ ctor_error = "Height (inches) must be an integer between 0 and 11."

\* C3: when a validation check fails, none of weight_kg, height_cm, age, sex
\* and activity level has been stored; a constructed profile holds all five.
C3_NoPartialProfile ==
    /\ phase = "raised" => DOMAIN calculator = {}
    /\ phase = "constructed" =>
          DOMAIN calculator =
              {"_weight_kg", "_height_cm", "_age_years", "_sex", "_activity_level"}

\* the weight check passed and a later check failed
C3_Witness ==
    /\ phase = "raised"
    /\ args.weight_lbs = 180 /\ args.height_ft = 5 /\ args.height_in = 10
    /\ args.age_years = 28 /\ args.sex = "male" /\ args.activity_level = "lazy"

ExpectedMultiplier(activity_level) ==
    IF SameIgnoringCase(activity_level, "sedentary") THEN 1200
    ELSE IF SameIgnoringCase(activity_level, "light") THEN 1375
    ELSE IF SameIgnoringCase(activity_level, "moderate") THEN 1550
    ELSE IF SameIgnoringCase(activity_level, "active") THEN 1725
    ELSE 1900

\* (10*weight_kg + 6.25*height_cm - 5*age + s) * multiplier, from the inputs
ExpectedMaintenance(a) ==
    LET weight_kg == a.weight_lbs * 453592
        height_cm == ((a.height_ft * 12) + a.height_in) * 254
        s == IF SameIgnoringCase(a.sex, "male") THEN 5 ELSE -161
        bmr == weight_kg + (6250 * height_cm) - (500000 * a.age_years) + (100000 * s)
    IN  FixMul(bmr, ExpectedMultiplier(a.activity_level))

Example ==
    [weight_lbs |-> 180, height_ft |-> 5, height_in |-> 10, age_years |-> 28,
     sex |-> "male", activity_level |-> "moderate"]

\* C4: for a valid profile get_maintenance_calories returns
\* (10*weight_kg + 6.25*height_cm - 5*age + s) * multiplier with the stated
\* conversions, constants and multipliers (about 2778.7 for the example);
\* the stored fields stay what construction made them, and every repeated
\* call returns that same value.
C4_MaintenanceFormula ==
    phase = "constructed" =>
        /\ calculator._weight_kg = args.weight_lbs * 453592
        /\ calculator._height_cm = ((args.height_ft * 12) + args.height_in) * 254
        /\ calculator._age_years = args.age_years
        /\ calls > 0 => tdee = ExpectedMaintenance(args)
        /\ (calls > 0 /\ args = Example) =>
              /\ tdee.kcal = 2778
              /\ 65000000 <= tdee.e8 /\ tdee.e8 <= 75000000

\* the example profile, queried more than once
C4_Witness ==
    /\ phase = "constructed"
    /\ args = Example
    /\ calls >= 2
    /\ tdee = [kcal |-> 2778, e8 |-> 70918000]

\* C5: constructions that differ only in the letter case of sex and
\* activity_level store the same lower-cased values and return the same
\* maintenance calories; a sex such as "other" fails with the message that
\* lists male and female.
C5_CaseInsensitive ==
    /\ phase = "constructed" =>
          /\ calculator._sex \in SexNames
          /\ SameIgnoringCase(calculator._sex, args.sex)
          /\ calculator._activity_level \in ActivityNames
          /\ SameIgnoringCase(calculator._activity_level, args.activity_level)
          /\ \A s2 \in Sexes, a2 \in Activities :
                (SameIgnoringCase(s2, args.sex)
                   /\ SameIgnoringCase(a2, args.activity_level)) =>
                    LET o == CalorieCalculator__init__(
                                 [args EXCEPT !.sex = s2, !.activity_level = a2])
                    IN  /\ o.raised = NoError
                        /\ o.self = calculator
                        /\ calls > 0 => get_maintenance_calories(o.self) = tdee
    /\ (phase = "raised" /\ NumbersValid(args) /\ args.sex = "other") =>
          ctor_error = "Invalid sex. Choose from: male, female."

\* an upper-case sex and a capitalised activity level, constructed and queried
C5_Witness ==
    /\ phase = "constructed"
    /\ args.sex = "MALE"
    /\ args.activity_level = "Moderate"
    /\ calls > 0

-----------------------------------------------------------------------------
(* extract_calories *)

\* first index from i on that holds no digit
RECURSIVE digit_run_end(_, _)
digit_run_end(s, i) ==
    IF i <= Len(s) /\ IsDigit(Ch(s, i)) THEN digit_run_end(s, i + 1) ELSE i

\* a slip: the pattern \d+ alone
number_match_end_mut(s, i) == digit_run_end(s, i)

\* where the match of \d+\.?\d* that starts at the digit s[i] ends (exclusive)
number_match_end(s, i) ==
    LET j == digit_run_end(s, i)
    IN  IF j <= Len(s) /\ Ch(s, j) = "." THEN digit_run_end(s, j + 1) ELSE j

\* re.findall(r'\d+\.?\d*', s), scanning from index i
RECURSIVE re_findall_number(_, _)
re_findall_number(s, i) ==
    IF i > Len(s) THEN <<>>
    ELSE IF IsDigit(Ch(s, i))
    THEN LET k == number_match_end(s, i)
         IN  <<SubSeq(s, i, k - 1)>> \o re_findall_number(s, k)
    ELSE re_findall_number(s, i + 1)

extract_calories(calories_value) ==
    IF calories_value = PyNone THEN PyInt(0)
    ELSE IF IsNumber(calories_value) THEN float_of_number(calories_value)
    ELSE IF calories_value.t = "str"
    THEN LET numbers == re_findall_number(calories_value.s, 1)
         IN  IF numbers # <<>>
             THEN LET f == py_float(numbers[1])
                  IN  IF f = ValueError THEN PyInt(0) ELSE f
             ELSE PyInt(0)
    ELSE PyInt(0)

MaxCaloriesLen == 5

CaloriesAlphabet == {"1", "5", ".", "a", " "}

CaloriesInputs ==
    {PyNone, PyInt(0), PyInt(150), PyInt(-3), PyFloat(1505, 1), PyNaN, PyList(<<>>)}
    \cup {PyStr(s) : s \in StringsOver(CaloriesAlphabet, MaxCaloriesLen)}
    \cup {PyStr("150 calories"), PyStr("150"), PyStr("abc"),
          PyStr("about 12.50 kcal"), PyStr("0.5.25")}

InitCalories ==
    /\ phase = "input"
    /\ value_in \in CaloriesInputs
    /\ value_out = PyNone
    /\ args = NoArgs
    /\ calculator = NoFields
    /\ ctor_error = NoError
    /\ tdee = NoValue
    /\ calls = 0
    /\ NoApp

ExtractCalories ==
    /\ phase = "input"
    /\ value_out' = extract_calories(value_in)
    /\ phase' = "done"
    /\ UNCHANGED <<value_in, calc_vars, app_vars>>

NextCalories == ExtractCalories

SpecCalories == InitCalories /\ [][NextCalories]_vars

\* the text is digits, then at most one point, then digits: D+ [. D*]
IsNumeral(text) ==
    /\ text # ""
    /\ IsDigit(Ch(text, 1))
    /\ \A i \in 1..Len(text) : IsDigit(Ch(text, i)) \/ Ch(text, i) = "."
    /\ Cardinality({i \in 1..Len(text) : Ch(text, i) = "."}) <= 1

HasDigit(s) == \E i \in 1..Len(s) : IsDigit(Ch(s, i))

\* the longest numeral that starts at the first digit of s
FirstNumeral(s) ==
    LET first == CHOOSE i \in 1..Len(s) :
                    IsDigit(Ch(s, i)) /\ \A k \in 1..(i - 1) : ~IsDigit(Ch(s, k))
        ends == {j \in first..Len(s) : IsNumeral(SubSeq(s, first, j))}
        last == CHOOSE j \in ends : \A k \in ends : k <= j
    IN  SubSeq(s, first, last)

\* the decimal a numeral denotes
NumeralValue(text) ==
    LET dots == {i \in 1..Len(text) : Ch(text, i) = "."}
        dot == IF dots = {} THEN Len(text) + 1 ELSE CHOOSE i \in dots : TRUE
        frac == SubSeq(text, dot + 1, Len(text))
    IN  PyFloat(digits_value(SubSeq(text, 1, dot - 1) \o frac), Len(frac))

\* the two numbers are the same number
NumEq(a, b) ==
    /\ IsNumber(a) /\ IsNumber(b)
    /\ IF a.t = "float_nan" \/ b.t = "float_nan" THEN a.t = b.t
       ELSE Normalize(a.m, a.e) = Normalize(b.m, b.e)

\* C6: extract_calories never raises; it returns 0 for an absent value, the
\* value as a float for a number, and for a string the value of the first
\* run of digits (optionally with a decimal point), 0 when there is no digit.
C6_ExtractCalories ==
    phase = "done" =>
        /\ IsNumber(value_out)
        /\ value_in = PyNone => NumEq(value_out, PyInt(0))
        /\ IsNumber(value_in) =>
              /\ value_out.t \in {"float", "float_nan"}
              /\ NumEq(value_out, value_in)
        /\ value_in.t = "str" =>
              IF HasDigit(value_in.s)
              THEN value_out = NumeralValue(FirstNumeral(value_in.s))
              ELSE NumEq(value_out, PyInt(0))
        /\ value_in \in {PyStr("150 calories"), PyStr("150"), PyInt(150)} =>
              value_out = PyFloat(150, 0)
        /\ value_in \in {PyNone, PyStr("abc")} => NumEq(value_out, PyFloat(0, 0))

\* a string whose first digit run carries a decimal point and is followed by
\* more text
C6_Witness ==
    /\ phase = "done"
    /\ value_in = PyStr("a1.5.")
    /\ value_out = PyFloat(15, 1)

-----------------------------------------------------------------------------
(* Macros expander: get_macro_value and the displayed texts *)

PyAbsent == [t |-> "absent"]

\* dict.get(key): None when the key is missing
py_dict_get(d, key) == IF key \in DOMAIN d THEN d[key] ELSE PyNone

\* repr(v) of a list item
py_repr(v) ==
    IF v.t = "str" THEN "'" \o v.s \o "'"
    ELSE IF IsNumber(v) THEN number_str(v)
    ELSE "None"

\* str(v)
py_str(v) ==
    IF v.t = "str" THEN v.s
    ELSE IF IsNumber(v) THEN number_str(v)
    ELSE IF v.t = "list"
    THEN "[" \o str_join(", ", [i \in 1..Len(v.items) |-> py_repr(v.items[i])]) \o "]"
    ELSE "None"

\* a slip: rstrip('g') removes every trailing g
RECURSIVE strip_unit_mut(_)
strip_unit_mut(value_str) ==
    IF str_endswith(value_str, "g")
    THEN strip_unit_mut(SubSeq(value_str, 1, Len(value_str) - 1))
    ELSE str_strip(value_str)

\* value_str[:-1].strip() when value_str ends with 'g'
strip_unit(value_str) ==
    IF str_endswith(value_str, "g")
    THEN str_strip(SubSeq(value_str, 1, Len(value_str) - 1))
    ELSE value_str

get_macro_value(value_input) ==
    IF value_input = PyNone THEN PyFloat(0, 0)
    ELSE LET value_str == str_lower(str_strip(py_str(value_input)))
         IN  IF value_str = "n/a" \/ value_str = "" THEN PyFloat(0, 0)
             ELSE LET f == py_float(strip_unit(value_str))
                  IN  IF f = ValueError THEN PyFloat(0, 0) ELSE f

\* v > 0 and v == 0 for a number; every comparison with nan is False
GtZero(v) == v.t # "float_nan" /\ v.m > 0
EqZero(v) == v.t # "float_nan" /\ v.m = 0

\* f"{v:.0f}": the nearest integer, a tie going to the even one
format_0f(v) ==
    LET a == IF v.m < 0 THEN -v.m ELSE v.m
        unit == Pow10(v.e)
        whole == a \div unit
        rest == a % unit
        up == (2 * rest > unit) \/ (2 * rest = unit /\ whole % 2 = 1)
    IN  (IF v.m < 0 THEN "-" ELSE "") \o nat_str(IF up THEN whole + 1 ELSE whole)

\* protein_display, carbs_display, fat_display
macro_display(g_val, raw) ==
    IF GtZero(g_val) \/ (IsNumber(raw) /\ EqZero(raw))
    THEN format_0f(g_val) \o "g"
    ELSE "N/A"

\* protein_display, carbs_display and fat_display, beside the gram values
macro_columns(macros_data, protein_g_val, carbs_g_val, fat_g_val) ==
    [protein_g_val |-> protein_g_val,
     carbs_g_val |-> carbs_g_val,
     fat_g_val |-> fat_g_val,
     protein_display |->
         macro_display(protein_g_val, py_dict_get(macros_data, "protein_g")),
     carbs_display |->
         macro_display(carbs_g_val, py_dict_get(macros_data, "carbs_g")),
     fat_display |->
         macro_display(fat_g_val, py_dict_get(macros_data, "fat_g"))]

\* the body of "if isinstance(macros_data, dict)"
macros_view(macros_data) ==
    macro_columns(macros_data,
                  get_macro_value(py_dict_get(macros_data, "protein_g")),
                  get_macro_value(py_dict_get(macros_data, "carbs_g")),
                  get_macro_value(py_dict_get(macros_data, "fat_g")))

MaxMacroLen == 4

MacroAlphabet == {"2", "0", ".", "g", " ", "-"}

MacroInputs ==
    {PyAbsent, PyNone, PyInt(0), PyInt(25), PyInt(-4), PyFloat(0, 0), PyFloat(125, 1),
     PyFloat(25, 1), PyNaN, PyList(<<>>), PyList(<<PyInt(25)>>)}
    \cup {PyStr(s) : s \in StringsOver(MacroAlphabet, MaxMacroLen)}
    \cup {PyStr("25g"), PyStr("N/A"), PyStr("n/a"), PyStr(" N/A "), PyStr("25gg"),
          PyStr("25 G"), PyStr("12.5g"), PyStr("nan"), PyStr("n/ag"), PyStr("+3g")}

OtherMacroInputs == {PyAbsent, PyInt(0), PyStr("30g")}

\* the dict that holds the given raw values, a PyAbsent key left out
MacrosDict(protein, carbs, fat) ==
    LET raw == [protein_g |-> protein, carbs_g |-> carbs, fat_g |-> fat]
    IN  [k \in {key \in DOMAIN raw : raw[key] # PyAbsent} |-> raw[k]]

InitMacros ==
    /\ phase = "input"
    /\ \E protein \in MacroInputs, carbs \in OtherMacroInputs, fat \in OtherMacroInputs :
          \E order \in 1..3 :
              value_in = IF order = 1 THEN MacrosDict(protein, carbs, fat)
                         ELSE IF order = 2 THEN MacrosDict(carbs, protein, fat)
                         ELSE MacrosDict(carbs, fat, protein)
    /\ value_out = PyNone
    /\ args = NoArgs
    /\ calculator = NoFields
    /\ ctor_error = NoError
    /\ tdee = NoValue
    /\ calls = 0
    /\ NoApp

RenderMacros ==
    /\ phase = "input"
    /\ value_out' = macros_view(value_in)
    /\ phase' = "done"
    /\ UNCHANGED <<value_in, calc_vars, app_vars>>

NextMacros == RenderMacros

SpecMacros == InitMacros /\ [][NextMacros]_vars

\* digits with at most one point and at least one digit
IsDecimalLiteral(text) ==
    /\ HasDigit(text)
    /\ \A i \in 1..Len(text) : IsDigit(Ch(text, i)) \/ Ch(text, i) = "."
    /\ Cardinality({i \in 1..Len(text) : Ch(text, i) = "."}) <= 1

Unsigned(text) == IF text # "" /\ Head(text) \in {"+", "-"} THEN Tail(text) ELSE text

\* the text, whitespace around it aside, is a signed decimal or nan
ParsesAsNumber(text) ==
    LET body == Unsigned(str_strip(text))
    IN  IsDecimalLiteral(body) \/ body = "nan"

ParsedNumber(text) ==
    LET t == str_strip(text)
        body == Unsigned(t)
        v == NumeralValue(body)
    IN  IF body = "nan" THEN PyNaN
        ELSE IF Head(t) = "-" THEN PyFloat(-v.m, v.e) ELSE v

\* what the claim says the coercion of one raw value is
ExpectedMacroValue(raw) ==
    IF raw = PyNone THEN PyFloat(0, 0)
    ELSE LET text == str_lower(str_strip(py_str(raw)))
             rest == IF text # "" /\ Ch(text, Len(text)) = "g"
                     THEN SubSeq(text, 1, Len(text) - 1)
                     ELSE text
         IN  IF text \in {"", "n/a"} THEN PyFloat(0, 0)
             ELSE IF ParsesAsNumber(rest) THEN ParsedNumber(rest)
             ELSE PyFloat(0, 0)

MacroKeys == {"protein_g", "carbs_g", "fat_g"}

ValueOf(mv, key) ==
    IF key = "protein_g" THEN mv.protein_g_val
    ELSE IF key = "carbs_g" THEN mv.carbs_g_val
    ELSE mv.fat_g_val

DisplayOf(mv, key) ==
    IF key = "protein_g" THEN mv.protein_display
    ELSE IF key = "carbs_g" THEN mv.carbs_display
    ELSE mv.fat_display

\* C7: get_macro_value never raises; it gives 0.0 for an absent value, and
\* otherwise takes str(value) stripped and lower-cased, gives 0.0 for "" and
\* "n/a", drops exactly one trailing "g", and gives the remainder parsed as
\* a number, 0.0 when it does not parse ("25g" 25.0, "N/A" 0.0, "25gg" 0.0);
\* each of protein_g, carbs_g and fat_g is coerced from its own raw value.
C7_MacroCoercion ==
    phase = "done" =>
        \A key \in MacroKeys :
            LET raw == py_dict_get(value_in, key)
                got == ValueOf(value_out, key)
            IN  /\ got.t \in {"float", "float_nan"}
                /\ got = ExpectedMacroValue(raw)
                /\ raw = PyStr("25g") => got = PyFloat(25, 0)
                /\ raw = PyStr("N/A") => got = PyFloat(0, 0)
                /\ raw = PyStr("25gg") => got = PyFloat(0, 0)

\* a doubled unit suffix next to a single one and a missing key
C7_Witness ==
    /\ phase = "done"
    /\ DOMAIN value_in = {"protein_g", "carbs_g"}
    /\ value_in.protein_g = PyStr("25gg")
    /\ value_in.carbs_g = PyStr("30g")
    /\ value_out.protein_g_val = PyFloat(0, 0)
    /\ value_out.carbs_g_val = PyFloat(30, 0)
    /\ value_out.fat_g_val = PyFloat(0, 0)

\* the raw value is a number, or a string that is a number with or without a
\* trailing "g"
Parseable(raw) ==
    \/ IsNumber(raw) /\ raw # PyNaN
    \/ /\ raw.t = "str"
       /\ LET text == str_lower(str_strip(raw.s))
              rest == IF text # "" /\ Ch(text, Len(text)) = "g"
                      THEN SubSeq(text, 1, Len(text) - 1)
                      ELSE text
          IN  IsDecimalLiteral(Unsigned(str_strip(rest)))

\* C8: a macro is displayed as "N/A" only when its raw value was absent or
\* unparseable and not the number 0; a numeric 0 is displayed as "0g"; every
\* present, parseable raw value is displayed as its gram value.
C8_DisplayOnlyMissingAsNA ==
    phase = "done" =>
        \A key \in MacroKeys :
            LET raw == py_dict_get(value_in, key)
                shown == DisplayOf(value_out, key)
            IN  /\ shown = "N/A" => (~Parseable(raw) /\ ~(IsNumber(raw) /\ EqZero(raw)))
                /\ (IsNumber(raw) /\ EqZero(raw)) => shown = "0g"
                /\ Parseable(raw) => shown = format_0f(ValueOf(value_out, key)) \o "g"

-----------------------------------------------------------------------------
(* Cooking Instructions expander *)

instruction_field_options ==
    <<"cooking_instructions", "cookingInstructions", "instructions",
      "cooking_steps", "recipe_steps", "preparation">>

\* a slip: the loop has no break, so the last matching field wins
RECURSIVE find_instructions_mut(_, _)
find_instructions_mut(series, i) ==
    IF i > Len(instruction_field_options)
    THEN [instructions |-> PyNone, found_field |-> PyNone]
    ELSE LET field == instruction_field_options[i]
             later == find_instructions_mut(series, i + 1)
         IN  IF later.instructions # PyNone THEN later
             ELSE IF field \in DOMAIN series /\ series[field] # PyNone
             THEN [instructions |-> series[field], found_field |-> PyStr(field)]
             ELSE later

\* the for loop over instruction_field_options, from option i on
RECURSIVE find_instructions(_, _)
find_instructions(series, i) ==
    IF i > Len(instruction_field_options)
    THEN [instructions |-> PyNone, found_field |-> PyNone]
    ELSE LET field == instruction_field_options[i]
         IN  IF field \in DOMAIN series /\ series[field] # PyNone
             THEN [instructions |-> series[field], found_field |-> PyStr(field)]
             ELSE find_instructions(series, i + 1)

\* first index from i on that holds no whitespace
RECURSIVE space_run_end(_, _)
space_run_end(s, i) ==
    IF i <= Len(s) /\ IsSpace(Ch(s, i)) THEN space_run_end(s, i + 1) ELSE i

\* a slip: \s+ where the pattern has \s*
delimiter_match_end_mut(s, i) ==
    LET j == space_run_end(s, i + 1)
    IN  IF /\ Ch(s, i) \in {",", "\n", "."}
           /\ j > i + 1
           /\ j <= Len(s)
           /\ (IsUpper(Ch(s, j)) \/ IsDigit(Ch(s, j)))
        THEN j
        ELSE 0

\* [,\n\.]\s*(?=[A-Z0-9]) at index i: where the match ends (exclusive), or 0
delimiter_match_end(s, i) ==
    LET j == space_run_end(s, i + 1)
    IN  IF /\ Ch(s, i) \in {",", "\n", "."}
           /\ j <= Len(s)
           /\ (IsUpper(Ch(s, j)) \/ IsDigit(Ch(s, j)))
        THEN j
        ELSE 0

\* (?<=\.)\s+ at index i
after_period_match_end(s, i) ==
    IF i > 1 /\ Ch(s, i - 1) = "." /\ IsSpace(Ch(s, i))
    THEN space_run_end(s, i)
    ELSE 0

\* \s*-\s* at index i
hyphen_match_end(s, i) ==
    LET j == space_run_end(s, i)
    IN  IF j <= Len(s) /\ Ch(s, j) = "-" THEN space_run_end(s, j + 1) ELSE 0

\* the whole pattern at index i: the first alternative that matches
separator_match_end(s, i) ==
    IF delimiter_match_end(s, i) > 0 THEN delimiter_match_end(s, i)
    ELSE IF after_period_match_end(s, i) > 0 THEN after_period_match_end(s, i)
    ELSE hyphen_match_end(s, i)

\* re.split(pattern, s): the piece that began at start, the search being at i
RECURSIVE re_split(_, _, _)
re_split(s, start, i) ==
    IF i > Len(s) THEN <<SubSeq(s, start, Len(s))>>
    ELSE LET e == separator_match_end(s, i)
         IN  IF e > 0
             THEN <<SubSeq(s, start, i - 1)>> \o re_split(s, e, e)
             ELSE re_split(s, start, i + 1)

\* [x.strip() for x in pieces if x.strip()]
RECURSIVE strip_nonempty(_)
strip_nonempty(pieces) ==
    IF pieces = <<>> THEN <<>>
    ELSE LET x == str_strip(Head(pieces))
         IN  IF x # "" THEN <<x>> \o strip_nonempty(Tail(pieces))
             ELSE strip_nonempty(Tail(pieces))

\* the list comprehension of the string branch
split_list(instructions) == strip_nonempty(re_split(instructions, 1, 1))

LongStringLength == 20

\* a slip: the fallback is taken whatever the length of the string
string_instruction_list_mut(instructions) ==
    LET instruction_list == split_list(instructions)
    IN  IF instruction_list = <<>>
        THEN <<str_strip(instructions)>>
        ELSE instruction_list

\* the string branch
string_instruction_list(instructions) ==
    LET instruction_list == split_list(instructions)
    IN  IF instruction_list = <<>> /\ Len(instructions) > LongStringLength
        THEN <<str_strip(instructions)>>
        ELSE instruction_list

\* a slip: the filter tests str(instr) where the code tests str(instr).strip()
RECURSIVE list_instruction_list_mut(_)
list_instruction_list_mut(items) ==
    IF items = <<>> THEN <<>>
    ELSE IF py_str(Head(items)) # ""
    THEN <<str_strip(py_str(Head(items)))>> \o list_instruction_list_mut(Tail(items))
    ELSE list_instruction_list_mut(Tail(items))

\* the list branch
list_instruction_list(items) ==
    strip_nonempty([i \in 1..Len(items) |-> py_str(items[i])])

\* a slip: a value of another type is shown as one step
instructions_view_mut(series) ==
    LET found == find_instructions(series, 1)
        instructions == found.instructions
        instruction_list ==
            IF instructions.t = "str" THEN string_instruction_list(instructions.s)
            ELSE IF instructions.t = "list" THEN list_instruction_list(instructions.items)
            ELSE <<py_str(instructions)>>
    IN  IF instructions # PyNone
        THEN [found_field |-> found.found_field,
              instructions |-> instructions,
              instruction_list |-> instruction_list,
              format_warning |-> FALSE,
              shown |-> IF instruction_list # <<>> THEN "steps"
                        ELSE "No cooking instructions provided in a parsable format."]
        ELSE [found_field |-> PyNone,
              instructions |-> PyNone,
              instruction_list |-> <<>>,
              format_warning |-> FALSE,
              shown |-> "No cooking instructions available for this dish."]

\* the expander: lookup, type dispatch and what is shown
instructions_view(series) ==
    LET found == find_instructions(series, 1)
        instructions == found.instructions
        instruction_list ==
            IF instructions.t = "str" THEN string_instruction_list(instructions.s)
            ELSE IF instructions.t = "list" THEN list_instruction_list(instructions.items)
            ELSE <<>>
    IN  IF instructions # PyNone
        THEN [found_field |-> found.found_field,
              instructions |-> instructions,
              instruction_list |-> instruction_list,
              format_warning |-> instructions.t \notin {"str", "list"},
              shown |-> IF instruction_list # <<>> THEN "steps"
                        ELSE "No cooking instructions provided in a parsable format."]
        ELSE [found_field |-> PyNone,
              instructions |-> PyNone,
              instruction_list |-> <<>>,
              format_warning |-> FALSE,
              shown |-> "No cooking instructions available for this dish."]

MaxSplitLen == 4

SplitAlphabet == {".", ",", "\n", " ", "-", "A", "a", "1"}

ExampleInstructions == "Mix flour. Add eggs. Bake 20 min."

SplitInputs ==
    StringsOver(SplitAlphabet, MaxSplitLen)
    \cup {ExampleInstructions,
          "Preheat to 350.5 degrees, then bake",
          "Chop onions,Fry - serve.\nEat",
          "-------------------------",
          "                         ",
          " - - - - - - - - - -",
          " - - - - - - - - - - ",
          " - - - - - - - - - - -",
          "stir until it is smooth"}

LookupValues ==
    {PyAbsent, PyNone, PyStr("Boil. Serve"), PyList(<<PyStr(" Step 1 "), PyStr(""), PyInt(2)>>),
     PyInt(3)}

MaxListLen == 3

ListItems ==
    {PyStr(" Step 1 "), PyStr(""), PyStr("Step 2"), PyStr(" \t"), PyInt(2),
     PyFloat(25, 1), PyNone}

\* all sequences over the items of length at most n
RECURSIVE SeqsOver(_, _)
SeqsOver(items, n) ==
    IF n = 0 THEN {<<>>}
    ELSE LET shorter == SeqsOver(items, n - 1)
         IN  shorter \cup {Append(q, x) : q \in shorter, x \in items}

ListInputs == SeqsOver(ListItems, MaxListLen)

\* values that are neither a string nor a list
OtherTypeInputs ==
    {PyInt(3), PyInt(0), PyFloat(25, 1), PyNaN, PyDict([step_1 |-> PyStr("Boil")])}

\* the row that holds the given values in the order of the options, a
\* PyAbsent field left out
SeriesOf(values) ==
    LET idx == {i \in 1..Len(values) : values[i] # PyAbsent}
    IN  [field \in {instruction_field_options[i] : i \in idx} |->
            values[CHOOSE i \in idx : instruction_field_options[i] = field]]

InitInstructions ==
    /\ phase = "input"
    /\ \/ \E c \in LookupValues, ci \in LookupValues, ins \in LookupValues,
             cs \in LookupValues, rs \in LookupValues, pr \in LookupValues :
             value_in = SeriesOf(<<c, ci, ins, cs, rs, pr>>)
       \/ \E text \in SplitInputs, field \in Range(instruction_field_options) :
             value_in = [f \in {field} |-> PyStr(text)]
       \/ \E items \in ListInputs : value_in = [instructions |-> PyList(items)]
       \/ \E other \in OtherTypeInputs, field \in Range(instruction_field_options) :
             value_in = [f \in {field} |-> other]
    /\ value_out = PyNone
    /\ args = NoArgs
    /\ calculator = NoFields
    /\ ctor_error = NoError
    /\ tdee = NoValue
    /\ calls = 0
    /\ NoApp

RenderInstructions ==
    /\ phase = "input"
    /\ value_out' = instructions_view(value_in)
    /\ phase' = "done"
    /\ UNCHANGED <<value_in, calc_vars, app_vars>>

NextInstructions == RenderInstructions

SpecInstructions == InitInstructions /\ [][NextInstructions]_vars

FieldOrder ==
    <<"cooking_instructions", "cookingInstructions", "instructions",
      "cooking_steps", "recipe_steps", "preparation">>

\* the positions, in the fixed order, of the fields present with a non-null value
PresentFields(series) ==
    {i \in 1..6 : FieldOrder[i] \in DOMAIN series /\ series[FieldOrder[i]] # PyNone}

AllSpace(s, a, b) == \A k \in a..b : IsSpace(Ch(s, k))

\* s[i] is a comma, newline or period followed by at least minSpace
\* whitespace characters and then an uppercase letter or digit
DelimiterAt(s, i, minSpace) ==
    /\ Ch(s, i) \in {",", "\n", "."}
    /\ \E j \in (i + 1 + minSpace)..Len(s) :
          AllSpace(s, i + 1, j - 1) /\ (IsUpper(Ch(s, j)) \/ IsDigit(Ch(s, j)))

\* s[i] is whitespace that follows a period, only whitespace in between
AfterPeriodAt(s, i) ==
    /\ IsSpace(Ch(s, i))
    /\ \E q \in 1..(i - 1) : Ch(s, q) = "." /\ AllSpace(s, q + 1, i)

\* s[i] is a hyphen, or whitespace with only whitespace between it and a hyphen
HyphenAt(s, i) ==
    \/ Ch(s, i) = "-"
    \/ /\ IsSpace(Ch(s, i))
       /\ \E h \in 1..Len(s) :
             /\ Ch(s, h) = "-"
             /\ IF h < i THEN AllSpace(s, h + 1, i) ELSE AllSpace(s, i, h - 1)

\* the indices the stated boundaries take out of the string
CutPositions(s, minSpace) ==
    {i \in 1..Len(s) : DelimiterAt(s, i, minSpace) \/ AfterPeriodAt(s, i) \/ HyphenAt(s, i)}

\* the maximal stretches of s that hold no cut index, from index a on
RECURSIVE Stretches(_, _, _)
Stretches(s, cut, a) ==
    IF a > Len(s) THEN <<>>
    ELSE IF a \in cut THEN Stretches(s, cut, a + 1)
    ELSE LET b == CHOOSE e \in a..Len(s) :
                     /\ \A k \in a..e : k \notin cut
                     /\ (e = Len(s) \/ (e + 1) \in cut)
         IN  <<SubSeq(s, a, b)>> \o Stretches(s, cut, b + 1)

\* the steps the stated boundaries give
StepsByRule(s, minSpace) == strip_nonempty(Stretches(s, CutPositions(s, minSpace), 1))

\* the string the lookup found, when it found one
FoundText == value_out.instructions.s

StringFound == phase = "done" /\ value_out.instructions.t = "str"

\* the steps are the ones the boundaries with the given minimum of
\* whitespace give; only a string left without a step may stand whole
SplitsByRule(minSpace) ==
    LET steps == StepsByRule(FoundText, minSpace)
    IN  IF steps # <<>> THEN value_out.instruction_list = steps
        ELSE value_out.instruction_list \in {<<>>, <<str_strip(FoundText)>>}

RECURSIVE OccurInOrder(_, _, _)
OccurInOrder(steps, s, a) ==
    \/ steps = <<>>
    \/ \E p \in a..(Len(s) - Len(Head(steps)) + 1) :
          /\ SubSeq(s, p, p + Len(Head(steps)) - 1) = Head(steps)
          /\ OccurInOrder(Tail(steps), s, p + Len(Head(steps)))

\* the step is not empty and neither begins nor ends with whitespace
Trimmed(step) ==
    /\ step # ""
    /\ ~IsSpace(Ch(step, 1))
    /\ ~IsSpace(Ch(step, Len(step)))

\* C11: for every string of instructions, the long-string fallback included,
\* every step of the resulting list is non-empty and has no leading or
\* trailing whitespace, and the steps appear in the order in which their
\* text appears in the string.
C11_StepsTrimmedInOrder ==
    StringFound =>
        /\ \A k \in 1..Len(value_out.instruction_list) :
              Trimmed(value_out.instruction_list[k])
        /\ OccurInOrder(value_out.instruction_list, FoundText, 1)

\* the string holds a character that is not whitespace
HasText(s) == \E k \in 1..Len(s) : ~IsSpace(Ch(s, k))

\* what is left of C11 when the empty step of the fallback is set aside:
\* a string with some text in it gives trimmed steps in order
StepsTrimmedWhenText ==
    (StringFound /\ HasText(FoundText)) =>
        /\ \A k \in 1..Len(value_out.instruction_list) :
              Trimmed(value_out.instruction_list[k])
        /\ OccurInOrder(value_out.instruction_list, FoundText, 1)

\* the string without its leading and trailing whitespace
TrimmedText(s) ==
    IF ~HasText(s) THEN ""
    ELSE LET a == CHOOSE i \in 1..Len(s) :
                     ~IsSpace(Ch(s, i)) /\ \A k \in 1..(i - 1) : IsSpace(Ch(s, k))
             b == CHOOSE i \in 1..Len(s) :
                     ~IsSpace(Ch(s, i)) /\ \A k \in (i + 1)..Len(s) : IsSpace(Ch(s, k))
         IN  SubSeq(s, a, b)

\* C12: when the split of a string gives no fragment, the result is the one
\* whole trimmed string if the string is longer than 20 characters and the
\* empty list if it is 20 characters or shorter; when the split gives a
\* fragment the result is the fragments, the fallback not being applied.
C12_FallbackOnlyWhenLong ==
    StringFound =>
        LET fragments == StepsByRule(FoundText, 0)
        IN  IF fragments # <<>> THEN value_out.instruction_list = fragments
            ELSE IF Len(FoundText) > 20
            THEN value_out.instruction_list = <<TrimmedText(FoundText)>>
            ELSE value_out.instruction_list = <<>>

\* a string of 21 characters that the split leaves without a fragment
C12_Witness ==
    /\ StringFound
    /\ FoundText = " - - - - - - - - - - "
    /\ StepsByRule(FoundText, 0) = <<>>
    /\ value_out.instruction_list = <<"- - - - - - - - - -">>

ListFound == phase = "done" /\ value_out.instructions.t = "list"

FoundItems == value_out.instructions.items

\* the indices of the elements whose string holds more than whitespace
KeptItems(items) == {i \in 1..Len(items) : HasText(py_str(items[i]))}

\* C13: for a list, the result holds the elements coerced to strings and
\* stripped, exactly the elements whose stripped string is empty being
\* removed and the order of the others kept; [" Step 1 ", "", "Step 2"]
\* gives ["Step 1", "Step 2"].
C13_ListStepsKept ==
    ListFound =>
        LET kept == KeptItems(FoundItems)
            steps == value_out.instruction_list
        IN  /\ Len(steps) = Cardinality(kept)
            /\ \A i \in kept :
                  steps[Cardinality({j \in kept : j <= i})]
                      = TrimmedText(py_str(FoundItems[i]))
            /\ FoundItems = <<PyStr(" Step 1 "), PyStr(""), PyStr("Step 2")>>
                  => steps = <<"Step 1", "Step 2">>

C13_Witness ==
    /\ ListFound
    /\ FoundItems = <<PyStr(" Step 1 "), PyStr(" \t"), PyInt(2)>>
    /\ value_out.instruction_list = <<"Step 1", "2">>

OtherTypeFound ==
    /\ phase = "done"
    /\ value_out.instructions # PyNone
    /\ value_out.instructions.t \notin {"str", "list"}

\* C14: when the value found is neither a string nor a list, the step list
\* is empty, the format warning is signalled and the expander goes on to
\* show what it shows for instructions that cannot be parsed.
C14_OtherTypeWarns ==
    OtherTypeFound =>
        /\ value_out.instruction_list = <<>>
        /\ value_out.format_warning
        /\ value_out.shown = "No cooking instructions provided in a parsable format."

C14_Witness ==
    /\ OtherTypeFound
    /\ value_out.instructions = PyInt(3)
    /\ value_out.format_warning

-----------------------------------------------------------------------------
(* load_and_process_data: the dataset file becomes the table of dishes *)

\* what the file can be: absent, not JSON, or a list of records
FileMissing == [kind |-> "missing"]
FileMalformed == [kind |-> "malformed"]
FileRecords(records) == [kind |-> "records", records |-> records]

\* df.columns: every key of every record
df_columns(records) == UNION {DOMAIN records[i] : i \in 1..Len(records)}

\* pd.read_json of a list of records: one row per record in file order, a
\* column the record lacks holding NaN
read_json(records) ==
    [i \in 1..Len(records) |->
        [c \in df_columns(records) |->
            IF c \in DOMAIN records[i] THEN records[i][c] ELSE PyNaN]]

\* a slip: keep='last'
RECURSIVE drop_duplicates_mut(_, _)
drop_duplicates_mut(df, subset) ==
    IF df = <<>> THEN <<>>
    ELSE IF \E j \in 2..Len(df) : df[j][subset] = Head(df)[subset]
    THEN drop_duplicates_mut(Tail(df), subset)
    ELSE <<Head(df)>> \o drop_duplicates_mut(Tail(df), subset)

\* the rows from index i on whose value in the column no earlier row holds
RECURSIVE rows_first_seen(_, _, _)
rows_first_seen(df, subset, i) ==
    IF i > Len(df) THEN <<>>
    ELSE IF \E j \in 1..(i - 1) : df[j][subset] = df[i][subset]
    THEN rows_first_seen(df, subset, i + 1)
    ELSE <<df[i]>> \o rows_first_seen(df, subset, i + 1)

\* df.drop_duplicates(subset=[subset], keep='first'); NaN equals NaN here
drop_duplicates(df, subset) == rows_first_seen(df, subset, 1)

\* a table with its rows in order
DataFrame(rows) == [t |-> "DataFrame", rows |-> rows]

\* the table returned (None after an error) and the message shown
load_and_process_data(file) ==
    IF file.kind = "missing"
    THEN [df |-> PyNone, shown |-> "Error: The file was not found."]
    ELSE IF file.kind = "malformed"
    THEN [df |-> PyNone, shown |-> "Error: Could not decode JSON."]
    ELSE IF file.records = <<>> \/ df_columns(file.records) = {}
    THEN [df |-> DataFrame(<<>>), shown |-> "The file was loaded but is empty."]
    ELSE IF "dish_name" \notin df_columns(file.records)
    THEN [df |-> PyNone, shown |-> "Critical Error: The 'dish_name' column is missing."]
    ELSE [df |-> DataFrame(drop_duplicates(read_json(file.records), "dish_name")),
          shown |-> ""]

MaxRecords == 3

RecordNames == {PyStr("Salad"), PyStr("Soup"), PyAbsent}

RecordCalories == {PyInt(150), PyInt(300)}

\* a record of the file, a PyAbsent name left out
FileRecord(name, calories) ==
    IF name = PyAbsent THEN [calories |-> calories]
    ELSE [dish_name |-> name, calories |-> calories]

FileInputs ==
    {FileMissing, FileMalformed}
    \cup {FileRecords(records) :
            records \in SeqsOver({FileRecord(n, c) : n \in RecordNames, c \in RecordCalories},
                                 MaxRecords)}

InitLoad ==
    /\ phase = "file"
    /\ value_in \in FileInputs
    /\ value_out = PyNone
    /\ args = NoArgs
    /\ calculator = NoFields
    /\ ctor_error = NoError
    /\ tdee = NoValue
    /\ calls = 0
    /\ NoApp

\* dishes_df = load_and_process_data("dishes.json")
LoadData ==
    /\ phase = "file"
    /\ value_out' = load_and_process_data(value_in)
    /\ phase' = "loaded"
    /\ UNCHANGED <<value_in, calc_vars, app_vars>>

NextLoad == LoadData

SpecLoad == InitLoad /\ [][NextLoad]_vars

\* a table was returned for a file of records
Loaded == phase = "loaded" /\ value_in.kind = "records" /\ value_out.df # PyNone

SourceRecords == value_in.records

HasName(record) == "dish_name" \in DOMAIN record

\* the record as a row of the table: its own fields
SameRecord(row, record) ==
    \A c \in DOMAIN record : c \in DOMAIN row /\ row[c] = record[c]

\* the rows are the records at increasing positions, from record a on
RECURSIVE InSourceOrder(_, _, _)
InSourceOrder(rows, records, a) ==
    \/ rows = <<>>
    \/ \E i \in a..Len(records) :
          /\ SameRecord(Head(rows), records[i])
          /\ (HasName(records[i]) <=> Head(rows).dish_name # PyNaN)
          /\ InSourceOrder(Tail(rows), records, i + 1)

\* C15: after loading, the dataset holds at most one record per dish_name;
\* for every dish_name of the source the surviving record is the first one
\* of that name in source order, and the surviving records keep their
\* relative source order.
C15_FirstOfEachNameKept ==
    Loaded =>
        LET df == value_out.df.rows
        IN  /\ \A i \in 1..Len(df), j \in 1..Len(df) :
                  (i # j /\ df[i].dish_name # PyNaN) => df[i].dish_name # df[j].dish_name
            /\ \A i \in 1..Len(SourceRecords) :
                  (/\ HasName(SourceRecords[i])
                   /\ \A j \in 1..(i - 1) :
                         ~(HasName(SourceRecords[j])
                           /\ SourceRecords[j].dish_name = SourceRecords[i].dish_name))
                  => \E k \in 1..Len(df) :
                        /\ df[k].dish_name = SourceRecords[i].dish_name
                        /\ SameRecord(df[k], SourceRecords[i])
            /\ InSourceOrder(df, SourceRecords, 1)

\* two Salad records with a Soup record between them
C15_Witness ==
    /\ Loaded
    /\ SourceRecords = <<FileRecord(PyStr("Salad"), PyInt(150)),
                         FileRecord(PyStr("Soup"), PyInt(150)),
                         FileRecord(PyStr("Salad"), PyInt(300))>>
    /\ value_out.df.rows = <<FileRecord(PyStr("Salad"), PyInt(150)),
                             FileRecord(PyStr("Soup"), PyInt(150))>>

-----------------------------------------------------------------------------
(* The script run: calculator expander, then the selected dish *)

NameError == [t |-> "NameError"]

\* int(v) for a number: toward zero
py_int(v) ==
    IF v.m >= 0 THEN v.m \div Pow10(v.e) ELSE -((-v.m) \div Pow10(v.e))

activity_map ==
    << <<"Sedentary (little/no exercise)", "sedentary">>,
       <<"Light (light exercise 1-3 days/week)", "light">>,
       <<"Moderate (moderate exercise 3-5 days/week)", "moderate">>,
       <<"Active (hard exercise 6-7 days/week)", "active">>,
       <<"Extra Active (very hard exercise/physical job)", "extra_active">> >>

\* a number as whole kcal and a 1e-8 remainder, the form of a maintenance value
ToFix(v) ==
    [kcal |-> v.m \div Pow10(v.e), e8 |-> (v.m % Pow10(v.e)) * Pow10(8 - v.e)]

FixGtZero(a) == a.kcal > 0 \/ (a.kcal = 0 /\ a.e8 > 0)
FixLe(a, b) == a.kcal < b.kcal \/ (a.kcal = b.kcal /\ a.e8 <= b.e8)
FixSub(a, b) ==
    IF a.e8 >= b.e8
    THEN [kcal |-> a.kcal - b.kcal, e8 |-> a.e8 - b.e8]
    ELSE [kcal |-> a.kcal - b.kcal - 1, e8 |-> (a.e8 + 100000000) - b.e8]

\* f"{a + offset:.0f}" for a maintenance value
fix_format_0f(a, offset) ==
    LET up == a.e8 > 50000000 \/ (a.e8 = 50000000 /\ a.kcal % 2 = 1)
    IN  int_str(a.kcal + offset + (IF up THEN 1 ELSE 0))

DefaultDailyTarget == 2000

\* the keys the script sets when they are missing
session_defaults(session) ==
    [maintenance_calories |->
         IF "maintenance_calories" \in DOMAIN session
         THEN session.maintenance_calories ELSE PyNone,
     calc_error |->
         IF "calc_error" \in DOMAIN session THEN session.calc_error ELSE PyNone]

\* the body of "if st.button(...)"
calculate_clicked(w) ==
    LET r == CalorieCalculator__init__(
                 [weight_lbs |-> py_int(w.weight_lbs),
                  height_ft |-> w.height[1],
                  height_in |-> w.height[2],
                  age_years |-> w.age_years,
                  sex |-> str_lower(w.sex),
                  activity_level |-> dict_get(activity_map, w.activity_level)])
    IN  IF r.raised = NoError
        THEN [maintenance_calories |-> get_maintenance_calories(r.self),
              calc_error |-> PyNone]
        ELSE [maintenance_calories |-> PyNone,
              calc_error |-> PyStr("Error: " \o r.raised)]

\* "Display stored results" and "Display stored errors"
calculator_view(session) ==
    [success |->
         IF session.maintenance_calories # PyNone
         THEN <<fix_format_0f(session.maintenance_calories, 0),
                fix_format_0f(session.maintenance_calories, -500),
                fix_format_0f(session.maintenance_calories, 500)>>
         ELSE <<>>,
     error |-> session.calc_error]

\* the chart for the calories of the dish and the daily target
details_view_of(dish_calories_val, daily_target_calories) ==
    IF ~IsNumber(dish_calories_val)
    THEN [raised |-> TypeError, shown |-> "", labels |-> <<>>, values |-> <<>>]
    ELSE IF ~GtZero(dish_calories_val)
    THEN [raised |-> PyNone,
          shown |-> "No calorie data available for daily intake calculation",
          labels |-> <<>>, values |-> <<>>]
    ELSE IF ~FixGtZero(daily_target_calories)
    THEN [raised |-> PyNone,
          shown |-> "Daily calorie target is not positive. Cannot render intake chart.",
          labels |-> <<>>, values |-> <<>>]
    ELSE IF FixLe(ToFix(dish_calories_val), daily_target_calories)
    THEN [raised |-> PyNone, shown |-> "chart",
          labels |-> <<"This Dish", "Remaining">>,
          values |-> <<ToFix(dish_calories_val),
                       FixSub(daily_target_calories, ToFix(dish_calories_val))>>]
    ELSE [raised |-> PyNone, shown |-> "chart",
          labels |-> <<"This Dish">>,
          values |-> <<ToFix(dish_calories_val)>>]

\* a slip: the target is 2000 whatever the session holds
details_view_mut(series, session) ==
    details_view_of(py_dict_get(series, "calories"), ToFix(PyInt(DefaultDailyTarget)))

\* the daily intake pie chart of the Details expander
details_view(series, session) ==
    details_view_of(py_dict_get(series, "calories"),
                    IF session.maintenance_calories # PyNone
                    THEN session.maintenance_calories
                    ELSE ToFix(PyInt(DefaultDailyTarget)))

\* the macro pie chart: the macros with a positive gram value
macro_chart(macros) ==
    LET names == (IF GtZero(macros.protein_g_val) THEN <<"Protein">> ELSE <<>>)
                 \o (IF GtZero(macros.carbs_g_val) THEN <<"Carbs">> ELSE <<>>)
                 \o (IF GtZero(macros.fat_g_val) THEN <<"Fat">> ELSE <<>>)
        values == (IF GtZero(macros.protein_g_val) THEN <<macros.protein_g_val>> ELSE <<>>)
                  \o (IF GtZero(macros.carbs_g_val) THEN <<macros.carbs_g_val>> ELSE <<>>)
                  \o (IF GtZero(macros.fat_g_val) THEN <<macros.fat_g_val>> ELSE <<>>)
    IN  [names |-> names, values |-> values,
         shown |-> IF values # <<>> THEN "chart"
                   ELSE "No macronutrient data (grams > 0) to display chart."]

NotRendered == <<>>

\* the Macros expander with its chart, and the Cooking Instructions expander
rendered_dish(details, macros, instructions) ==
    [raised |-> PyNone, details |-> details, macros |-> macros,
     macro_chart |-> macro_chart(macros), instructions |-> instructions]

\* the expanders that follow the Details expander; an exception ends the run
dish_sections(series, details, macros_data) ==
    IF details.raised # PyNone
    THEN [raised |-> details.raised, details |-> details, macros |-> NotRendered,
          macro_chart |-> NotRendered, instructions |-> NotRendered]
    ELSE IF macros_data.t # "dict"
    THEN [raised |-> NameError, details |-> details, macros |-> NotRendered,
          macro_chart |-> NotRendered, instructions |-> NotRendered]
    ELSE rendered_dish(details, macros_view(macros_data.d), instructions_view(series))

\* the view of the selected dish, expander by expander
dish_view(series, session) ==
    dish_sections(series, details_view(series, session), py_dict_get(series, "macros"))

NoDish == <<>>

\* what a run leaves: the session state and the page
run_result(w, session) ==
    [session_state |-> session,
     view |-> [calculator |-> calculator_view(session),
               dish |-> IF w.selected_dish # NoDish
                        THEN dish_view(w.selected_dish, session)
                        ELSE NotRendered]]

\* a slip: a failed calculation leaves the stored value where it was
script_run_mut(session, w, clicked) ==
    run_result(w, IF clicked /\ calculate_clicked(w).calc_error = PyNone
                  THEN calculate_clicked(w)
                  ELSE IF clicked
                  THEN [maintenance_calories |-> session_defaults(session).maintenance_calories,
                        calc_error |-> calculate_clicked(w).calc_error]
                  ELSE session_defaults(session))

\* one run of the script, top to bottom
script_run(session, w, clicked) ==
    run_result(w, IF clicked THEN calculate_clicked(w) ELSE session_defaults(session))

WidgetWeights == {PyFloat(1, 0), PyFloat(1805, 1)}
WidgetHeights == {<<5, 10>>}
WidgetAges == {28, 400}
WidgetSexes == {"Male", "Female"}
WidgetActivities ==
    {"Sedentary (little/no exercise)", "Extra Active (very hard exercise/physical job)"}

DishCalories ==
    {PyAbsent, PyNone, PyNaN, PyInt(0), PyInt(-5), PyInt(150), PyInt(2000), PyInt(2500),
     PyFloat(3505, 1),
     PyStr("150 calories")}

DishMacros ==
    {PyAbsent, PyStr("N/A"),
     PyDict([protein_g |-> PyStr("25g"), carbs_g |-> PyInt(0), fat_g |-> PyStr("N/A")]),
     PyDict([carbs_g |-> PyStr("0g")])}

DishInstructions == {PyAbsent, PyStr(ExampleInstructions), PyInt(3)}

\* the row of a dish, a PyAbsent field left out
DishRow(calories, macros, instructions) ==
    LET raw == [dish_name |-> PyStr("Salad"), calories |-> calories, macros |-> macros,
                instructions |-> instructions]
    IN  [k \in {key \in DOMAIN raw : raw[key] # PyAbsent} |-> raw[k]]

Dishes ==
    {DishRow(c, PyDict([protein_g |-> PyInt(12)]), PyAbsent) : c \in DishCalories}
    \cup {DishRow(PyInt(150), mac, ins) : mac \in DishMacros, ins \in DishInstructions}

Init ==
    /\ phase = "app"
    /\ session_state = <<>>
    /\ widgets = [weight_lbs |-> PyFloat(180, 0), height |-> <<5, 10>>, age_years |-> 28,
                  sex |-> "Male", activity_level |-> "Sedentary (little/no exercise)",
                  selected_dish |-> NoDish]
    /\ view = <<>>
    /\ args = NoArgs
    /\ calculator = NoFields
    /\ ctor_error = NoError
    /\ tdee = NoValue
    /\ calls = 0
    /\ value_in = PyNone
    /\ value_out = PyNone

RunScript(w, clicked) ==
    \E r \in {script_run(session_state, w, clicked)} :
        /\ widgets' = w
        /\ session_state' = r.session_state
        /\ view' = r.view
        /\ UNCHANGED <<phase, calc_vars, fn_vars>>

\* the page is loaded or reloaded
Rerun == RunScript(widgets, FALSE)

\* a calculator input is changed
ChangeInputs ==
    /\ view # <<>>
    /\ \E weight \in WidgetWeights, height \in WidgetHeights, age \in WidgetAges,
          sex \in WidgetSexes, activity \in WidgetActivities :
          RunScript([widgets EXCEPT !.weight_lbs = weight, !.height = height,
                                    !.age_years = age, !.sex = sex,
                                    !.activity_level = activity], FALSE)

\* "Calculate Maintenance Calories" is clicked
ClickCalculate ==
    /\ view # <<>>
    /\ RunScript(widgets, TRUE)

\* a dish, or the empty option, is picked in the selectbox
SelectDish ==
    /\ view # <<>>
    /\ \E d \in Dishes \cup {NoDish} :
          RunScript([widgets EXCEPT !.selected_dish = d], FALSE)

Next == Rerun \/ ChangeInputs \/ ClickCalculate \/ SelectDish

Spec == Init /\ [][Next]_vars

\* C1: whatever the calories field of the selected dish holds (a number, a
\* text such as "150 calories", or nothing) and whether or not its macros
\* field is a mapping, rendering the dish never aborts: no exception ends
\* the script run.
C1_RenderNeverAborts ==
    (view # <<>> /\ widgets.selected_dish # NoDish) => view.dish.raised = PyNone

\* the Details expander of the selected dish has been drawn
DetailsDrawn ==
    /\ view # <<>>
    /\ widgets.selected_dish # NoDish
    /\ view.dish.details.raised = PyNone

\* a number in units of 1e-8
Amount(kcal, e8) == [kcal |-> kcal, e8 |-> e8]

\* the calories of a dish whose calories are a number other than NaN
DishAmount(v) == Amount(v.m \div Pow10(v.e), (v.m % Pow10(v.e)) * Pow10(8 - v.e))

\* the stored maintenance value when one is stored, 2000 otherwise
DailyTarget ==
    IF session_state.maintenance_calories # PyNone
    THEN session_state.maintenance_calories
    ELSE Amount(2000, 0)

Positive(a) == a.kcal > 0 \/ (a.kcal = 0 /\ a.e8 > 0)
NotAbove(a, b) == a.kcal < b.kcal \/ (a.kcal = b.kcal /\ a.e8 <= b.e8)
SumsTo(a, b, c) ==
    c = Amount(a.kcal + b.kcal + ((a.e8 + b.e8) \div 100000000),
               (a.e8 + b.e8) % 100000000)

\* C17: the daily-intake chart takes as target the stored maintenance value
\* when one is stored and 2000 otherwise; it is drawn only when the calories
\* of the dish and the target are both above 0 (a target of 0 or less gives
\* the warning, calories of 0 or less the no-data message); when drawn, no
\* slice is negative: calories that do not exceed the target give the two
\* slices dish and remaining, which sum to the target, and calories above
\* it give the single dish slice.
C17_IntakeChart ==
    DetailsDrawn =>
        LET details == view.dish.details
            calories == widgets.selected_dish.calories
            has_calories == calories.t # "float_nan" /\ calories.m > 0
        IN  /\ details.shown = "chart" <=> (has_calories /\ Positive(DailyTarget))
            /\ (has_calories /\ ~Positive(DailyTarget)) =>
                  details.shown
                      = "Daily calorie target is not positive. Cannot render intake chart."
            /\ ~has_calories =>
                  details.shown = "No calorie data available for daily intake calculation"
            /\ details.shown = "chart" =>
                  /\ \A k \in 1..Len(details.values) : details.values[k].kcal >= 0
                  /\ IF NotAbove(DishAmount(calories), DailyTarget)
                     THEN /\ details.labels = <<"This Dish", "Remaining">>
                          /\ Len(details.values) = 2
                          /\ details.values[1] = DishAmount(calories)
                          /\ SumsTo(details.values[1], details.values[2], DailyTarget)
                     ELSE /\ details.labels = <<"This Dish">>
                          /\ details.values = <<DishAmount(calories)>>

\* a stored target and a dish below it: two slices
C17_Witness ==
    /\ DetailsDrawn
    /\ session_state.maintenance_calories = [kcal |-> 2151, e8 |-> 25872000]
    /\ widgets.selected_dish.calories = PyFloat(3505, 1)
    /\ view.dish.details.values = <<Amount(350, 50000000), Amount(1800, 75872000)>>

\* a stored target that is not positive: the warning
TargetWarningShown ==
    /\ DetailsDrawn
    /\ ~Positive(DailyTarget)
    /\ view.dish.details.shown
           = "Daily calorie target is not positive. Cannot render intake chart."

\* calories equal to the default target, and calories above it
WholeTargetShown ==
    /\ DetailsDrawn
    /\ view.dish.details.values = <<Amount(2000, 0), Amount(0, 0)>>

SingleSliceShown ==
    /\ DetailsDrawn
    /\ view.dish.details.values = <<Amount(2500, 0)>>

-----------------------------------------------------------------------------
(* The calculator expander alone: reruns and clicks, no dish selected *)

\* the page only yields a weight of 1.0 or more and an age of 1 or more
\* (number_input min_value); 0 stands here for a value the constructor
\* rejects, so that the except branch of the handler runs as well
SessionWeights == {PyFloat(0, 0), PyFloat(1805, 1)}
SessionAges == {0, 28, 45}

InitSession ==
    /\ phase = "session"
    /\ session_state = <<>>
    /\ widgets = [weight_lbs |-> PyFloat(180, 0), height |-> <<5, 10>>, age_years |-> 28,
                  sex |-> "Male", activity_level |-> "Sedentary (little/no exercise)",
                  selected_dish |-> NoDish]
    /\ view = <<>>
    /\ args = NoArgs
    /\ calculator = NoFields
    /\ ctor_error = NoError
    /\ tdee = NoValue
    /\ calls = 0
    /\ value_in = PyNone
    /\ value_out = PyNone

\* a run of the script; phase keeps whether the button was clicked
SessionRun(w, clicked) ==
    \E r \in {script_run(session_state, w, clicked)} :
        /\ widgets' = w
        /\ session_state' = r.session_state
        /\ view' = r.view
        /\ phase' = IF clicked THEN "clicked" ELSE "rerun"
        /\ UNCHANGED <<calc_vars, fn_vars>>

SessionRerun == SessionRun(widgets, FALSE)

SessionInputs ==
    /\ view # <<>>
    /\ \E weight \in SessionWeights, age \in SessionAges, sex \in WidgetSexes,
          activity \in WidgetActivities :
          SessionRun([widgets EXCEPT !.weight_lbs = weight, !.age_years = age,
                                     !.sex = sex, !.activity_level = activity], FALSE)

SessionClick ==
    /\ view # <<>>
    /\ SessionRun(widgets, TRUE)

NextSession == SessionRerun \/ SessionInputs \/ SessionClick

SpecSession == InitSession /\ [][NextSession]_vars

\* what the session holds, nothing being the same as None
Stored(session) ==
    [value |-> IF "maintenance_calories" \in DOMAIN session
               THEN session.maintenance_calories ELSE PyNone,
     error |-> IF "calc_error" \in DOMAIN session THEN session.calc_error ELSE PyNone]

\* the arguments the inputs of the page stand for
ArgsOf(w) ==
    [weight_lbs |-> w.weight_lbs.m \div Pow10(w.weight_lbs.e),
     height_ft |-> w.height[1], height_in |-> w.height[2],
     age_years |-> w.age_years, sex |-> w.sex,
     activity_level |->
         IF w.activity_level = "Sedentary (little/no exercise)" THEN "sedentary"
         ELSE "extra_active"]

NeverValueAndError ==
    ~(Stored(session_state).value # PyNone /\ Stored(session_state).error # PyNone)

ClickOrRerun ==
    /\ phase' = "clicked" =>
          IF NumbersValid(ArgsOf(widgets'))
          THEN /\ Stored(session_state').value = ExpectedMaintenance(ArgsOf(widgets'))
               /\ Stored(session_state').error = PyNone
          ELSE /\ Stored(session_state').value = PyNone
               /\ Stored(session_state').error # PyNone
    /\ phase' = "rerun" => Stored(session_state') = Stored(session_state)

\* C16: after any sequence of reruns and clicks the session never holds both
\* a stored maintenance value and a stored error: a successful calculation
\* stores the new value and clears the error, a failed one stores the error
\* and clears the stored value, and a rerun without a click leaves both
\* unchanged.
C16_ValueXorError == []NeverValueAndError /\ [][ClickOrRerun]_vars

\* a value stored by a click is still there after a rerun
C16_Witness ==
    /\ phase = "rerun"
    /\ Stored(session_state).value = [kcal |-> 2151, e8 |-> 25872000]
    /\ Stored(session_state).error = PyNone

\* a click that failed after one that succeeded
FailedClickStored ==
    /\ phase = "clicked"
    /\ Stored(session_state).value = PyNone
    /\ Stored(session_state).error = PyStr("Error: Weight must be a positive number.")

====
